---- MODULE Spec2Model ----
(***************************************************************************)
(* Model of the governance canister (rust/governance): the GovernorBravo   *)
(* proposal state machine, its Timelock and its StableMemory append log.   *)
(*                                                                         *)
(* Time is scaled: one model time unit stands for one of the periods the   *)
(* code measures in nanoseconds, and vote amounts are small naturals.      *)
(* Proposal ids are 0-based as in the code; proposals is a 1-based         *)
(* sequence, so proposal id lives at proposals[id + 1].                    *)
(* Strings that play no part in control flow (name, title) are left out;   *)
(* a description is modelled by its length in bytes.                       *)
(***************************************************************************)
EXTENDS Integers, Sequences, FiniteSets, TLC

VARIABLES
    proposals,            \* GovernorBravo.proposals : Vec<Proposal>
    latest_proposal_ids,  \* GovernorBravo.latest_proposal_ids
    quorum_votes,         \* GovernorBravo.quorum_votes
    voting_delay,         \* GovernorBravo.voting_delay
    voting_period,        \* GovernorBravo.voting_period
    proposal_threshold,   \* GovernorBravo.proposal_threshold
    admin,                \* GovernorBravo.admin
    pending_admin,        \* GovernorBravo.pending_admin : Option<Principal>
    timelock,             \* GovernorBravo.timelock : [delay, queued_transactions]
    stable_memory,        \* GovernorBravo.stable_memory : [offset, capacity]
    now,                  \* the platform clock, ic::time()
    last,                 \* the call made by the last step, with its result
    init_admin,           \* the admin argument lib.rs initialize was given
    stats,                \* gov_token StatsData (total_supply, owner, fee, fee_to)
    balances,             \* gov_token Balances
    allowances,           \* gov_token Allowances
    delegates,            \* gov_token Delegates
    check_points,         \* gov_token CheckPoints
    ie_records,           \* gov_token TxLog.ie_records, the unsent events
    stable_bytes,         \* the canister's stable memory, a sequence of bytes
    log_writes,           \* what each successful write was given and returned
    inflight,             \* per caller, the castVote / execute call that awaits
    dispatched            \* ids of the proposals whose task call has succeeded

vars == <<proposals, latest_proposal_ids, quorum_votes, voting_delay,
          voting_period, proposal_threshold, admin, pending_admin, timelock,
          stable_memory, now, last, init_admin, stats, balances, allowances,
          delegates, check_points, ie_records, stable_bytes, log_writes,
          inflight, dispatched>>

config == <<quorum_votes, voting_delay, voting_period, proposal_threshold>>
admins == <<admin, pending_admin>>
ledger == <<stats, balances, allowances, delegates, check_points>>
\* what the GovernorBravo operations never touch
calls == <<inflight, dispatched>>
ledgers == <<init_admin, ledger, ie_records, log_writes, calls>>
others == <<ledgers, stable_bytes>>

----------------------------------------------------------------------------
(* Bounds of the model *)

MaxTime == 6
MaxProposals == 2
MaxVotes == 2

(* Scaled program constants *)
GRACE_PERIOD == 2
PageSize == 2

Principals == {"alice", "bob"}
Anonymous == "anonymous"
Callers == {Anonymous, "alice"}
Targets == {"mgmt"}
VoteTypes == {"Support", "Against", "Abstain"}
None == "none"

QuorumValues == {1, 2}
VotingDelayValues == {0, 1}
VotingPeriodValues == {1}
ThresholdValues == {1}
TimelockDelayValues == {1}

----------------------------------------------------------------------------
(* Results: Result<R, &'static str>, or a panic (a trap of the canister,   *)
(* which discards the call's changes).                                     *)

Ok(v) == [ok |-> TRUE, err |-> "", val |-> v]
Err(e) == [ok |-> FALSE, err |-> e, val |-> 0]
IndexPanic == "panic: index out of bounds"

----------------------------------------------------------------------------
(* stable.rs *)

NoPosition == [some |-> FALSE, offset |-> 0, len |-> 0]
Position(offset, len) == [some |-> TRUE, offset |-> offset, len |-> len]

size(mem) == mem.capacity * PageSize

\* StableMemory::grow: stable_grow may refuse (growOk = FALSE).
grow(mem, pages, growOk) ==
    IF growOk
    THEN [ok |-> TRUE, mem |-> [mem EXCEPT !.capacity = mem.capacity + pages]]
    ELSE [ok |-> FALSE, mem |-> mem]

\* write that leaves the offset where it was: the slip the C33 check looks
\* for.
write_NoAdvance(mem, len, growOk) ==
    LET g == IF mem.offset + len > size(mem)
             THEN grow(mem, (len \div PageSize) + 1, growOk)
             ELSE [ok |-> TRUE, mem |-> mem]
    IN IF ~g.ok
       THEN [ok |-> FALSE, mem |-> mem, len |-> 0]
       ELSE [ok |-> TRUE, mem |-> g.mem, len |-> len]

\* StableMemory::write of len bytes: [ok, mem, len].
write(mem, len, growOk) ==
    LET g == IF mem.offset + len > size(mem)
             THEN grow(mem, (len \div PageSize) + 1, growOk)
             ELSE [ok |-> TRUE, mem |-> mem]
    IN IF ~g.ok
       THEN [ok |-> FALSE, mem |-> mem, len |-> 0]
       ELSE [ok |-> TRUE,
             mem |-> [g.mem EXCEPT !.offset = mem.offset + len],
             len |-> len]

\* StableMemory::read of a buffer of len bytes at offset.
read(mem, offset, len) ==
    IF offset + len > mem.offset THEN [ok |-> FALSE, len |-> 0]
    ELSE [ok |-> TRUE, len |-> len]

\* The platform's stable memory: stable_grow adds zeroed pages, stable_write
\* copies buf to offset, stable_read copies len bytes from offset.
Zeros(n) == [i \in 1 .. n |-> 0]

stable_grow(bytes, pages) == bytes \o Zeros(pages * PageSize)

stable_write(bytes, offset, buf) ==
    [i \in 1 .. Len(bytes) |->
        IF offset < i /\ i <= offset + Len(buf) THEN buf[i - offset]
        ELSE bytes[i]]

stable_read(bytes, offset, len) == SubSeq(bytes, offset + 1, offset + len)

\* StableMemory::write of the bytes buf, with the memory it writes to:
\* [ok, mem, len, bytes].
write_buf(mem, bytes, buf, growOk) ==
    LET w == write(mem, Len(buf), growOk)
    IN [ok |-> w.ok, mem |-> w.mem, len |-> w.len,
        bytes |-> IF w.ok
                  THEN stable_write(
                           stable_grow(bytes, w.mem.capacity - mem.capacity),
                           mem.offset, buf)
                  ELSE bytes]

\* StableMemory::read into a buffer of len bytes: [ok, buf].
read_buf(mem, bytes, offset, len) ==
    IF read(mem, offset, len).ok
    THEN [ok |-> TRUE, buf |-> stable_read(bytes, offset, len)]
    ELSE [ok |-> FALSE, buf |-> <<>>]

\* The bytes of a description or reason of len bytes; the governor's
\* operations below keep its length only.
TextBytes(len) == [i \in 1 .. len |-> 1]

----------------------------------------------------------------------------
(* timelock.rs *)

\* Task::new
NewTask(target) ==
    [target |-> target, method |-> "test", arguments |-> <<>>, cycles |-> 0,
     eta |-> 0]

queue_transaction(tl, task) ==
    [tl EXCEPT !.queued_transactions = @ \cup {task}]

\* cancel_transaction that empties the whole set: the slip the C21 check
\* looks for.
cancel_transaction_Clear(tl, task) ==
    [tl EXCEPT !.queued_transactions = {}]

cancel_transaction(tl, task) ==
    [tl EXCEPT !.queued_transactions = @ \ {task}]

\* The gate of Timelock::execute_transaction (the checks before the call):
\* the step GovernorBravo::pre_execute asks of the Timelock.
pre_execute_transaction(tl, task, timestamp) ==
    IF task \in tl.queued_transactions
    THEN [res |-> Err("Transaction hasn't been queued"), tl |-> tl]
    ELSE IF timestamp >= task.eta
    THEN [res |-> Err("Transaction hasn't surpassed time lock"), tl |-> tl]
    ELSE IF timestamp <= task.eta + GRACE_PERIOD
    THEN [res |-> Err("Transaction is stale"), tl |-> tl]
    ELSE [res |-> Ok(0), tl |-> cancel_transaction(tl, task)]

\* The tail of Timelock::execute_transaction (after the call returned):
\* a failed call puts the task back.
post_execute_transaction(tl, task, result) ==
    IF result THEN tl ELSE queue_transaction(tl, task)

----------------------------------------------------------------------------
(* governance.rs *)

NoReceipt == [vote_type |-> None, votes |-> 0, reason |-> NoPosition]

\* Receipt::new
NewReceipt(vote_type, votes, reason) ==
    [vote_type |-> vote_type, votes |-> votes, reason |-> reason]

\* Proposal::new with the voting period left out of end_time (the proposal
\* closes when it opens): the slip the C14 check looks for.
NewProposal_NoPeriod(id, proposer, description, target, start_time, end_time) ==
    [id |-> id, proposer |-> proposer, description |-> description,
     task |-> NewTask(target),
     start_time |-> start_time, end_time |-> start_time,
     support_votes |-> 0, against_votes |-> 0, abstain_votes |-> 0,
     canceled |-> FALSE, executed |-> FALSE, executing |-> FALSE,
     receipts |-> [v \in Principals |-> NoReceipt]]

\* Proposal::new
NewProposal(id, proposer, description, target, start_time, end_time) ==
    [id |-> id, proposer |-> proposer, description |-> description,
     task |-> NewTask(target),
     start_time |-> start_time, end_time |-> end_time,
     support_votes |-> 0, against_votes |-> 0, abstain_votes |-> 0,
     canceled |-> FALSE, executed |-> FALSE, executing |-> FALSE,
     receipts |-> [v \in Principals |-> NoReceipt]]

\* The if-chain with the quorum test made strict (support must exceed the
\* quorum): the slip the C4 check looks for.
ProposalStateOf_StrictQuorum(proposal, timestamp) ==
    IF proposal.canceled THEN "Canceled"
    ELSE IF proposal.start_time > timestamp THEN "Pending"
    ELSE IF proposal.end_time > timestamp THEN "Active"
    ELSE IF \/ proposal.support_votes <= proposal.against_votes
            \/ proposal.support_votes <= quorum_votes THEN "Defeated"
    ELSE IF proposal.task.eta = 0 THEN "Succeeded"
    ELSE IF proposal.executed THEN "Executed"
    ELSE IF proposal.executing THEN "Executing"
    ELSE IF proposal.task.eta + GRACE_PERIOD < timestamp THEN "Expired"
    ELSE "Queued"

\* The if-chain of GovernorBravo::get_state on one proposal.
ProposalStateOf(proposal, timestamp) ==
    IF proposal.canceled THEN "Canceled"
    ELSE IF proposal.start_time > timestamp THEN "Pending"
    ELSE IF proposal.end_time > timestamp THEN "Active"
    ELSE IF \/ proposal.support_votes <= proposal.against_votes
            \/ proposal.support_votes < quorum_votes THEN "Defeated"
    ELSE IF proposal.task.eta = 0 THEN "Succeeded"
    ELSE IF proposal.executed THEN "Executed"
    ELSE IF proposal.executing THEN "Executing"
    ELSE IF proposal.task.eta + GRACE_PERIOD < timestamp THEN "Expired"
    ELSE "Queued"

\* get_state that rejects the ids that are not below proposals.len() and
\* answers for the others: with it a vote cast with an old timestamp
\* counts, which the C35 check looks for.
get_state_InRange(id, timestamp) ==
    IF ~(id < Len(proposals))
    THEN [ok |-> FALSE, err |-> "invalid proposal id", state |-> None]
    ELSE [ok |-> TRUE, err |-> "",
          state |-> ProposalStateOf(proposals[id + 1], timestamp)]

\* GovernorBravo::get_state: [ok, err, state].
get_state(id, timestamp) ==
    IF id < Len(proposals)
    THEN [ok |-> FALSE, err |-> "invalid proposal id", state |-> None]
    ELSE IF ~(id < Len(proposals))   \* &self.proposals[id] out of bounds
    THEN [ok |-> FALSE, err |-> IndexPanic, state |-> None]
    ELSE [ok |-> TRUE, err |-> "",
          state |-> ProposalStateOf(proposals[id + 1], timestamp)]

NoId == -1

\* propose with the threshold test made inclusive (votes equal to the
\* threshold pass): the slip the C12 check looks for.
propose_ThresholdInclusive(proposer, proposer_votes, target, dlen, growOk, timestamp) ==
    LET same(r) == [res |-> r, proposals |-> proposals,
                    latest |-> latest_proposal_ids, mem |-> stable_memory]
        lpi == latest_proposal_ids[proposer]
        st == get_state(lpi, timestamp)
        w == write(stable_memory, dlen, growOk)
    IN IF proposer_votes < proposal_threshold
       THEN same(Err("proposer votes below proposal threshold"))
       ELSE IF lpi # NoId /\ ~st.ok
       THEN same(Err(st.err))
       ELSE IF lpi # NoId /\ st.state \in {"Pending", "Active", "Executing"}
       THEN same(Err("one live proposal per proposer"))
       ELSE IF ~w.ok
       THEN same(Err("Stable memory error"))
       ELSE [res |-> Ok(Len(proposals)),
             proposals |->
                 Append(proposals,
                        NewProposal(Len(proposals), proposer,
                                    Position(stable_memory.offset, w.len),
                                    target, timestamp + voting_delay,
                                    timestamp + voting_delay + voting_period)),
             latest |-> [latest_proposal_ids EXCEPT
                            ![proposer] = Len(proposals)],
             mem |-> w.mem]

\* propose without the look at the proposer's latest proposal: the slip
\* the C19 check looks for.
propose_NoLiveCheck(proposer, proposer_votes, target, dlen, growOk, timestamp) ==
    LET same(r) == [res |-> r, proposals |-> proposals,
                    latest |-> latest_proposal_ids, mem |-> stable_memory]
        w == write(stable_memory, dlen, growOk)
    IN IF proposer_votes <= proposal_threshold
       THEN same(Err("proposer votes below proposal threshold"))
       ELSE IF ~w.ok
       THEN same(Err("Stable memory error"))
       ELSE [res |-> Ok(Len(proposals)),
             proposals |->
                 Append(proposals,
                        NewProposal(Len(proposals), proposer,
                                    Position(stable_memory.offset, w.len),
                                    target, timestamp + voting_delay,
                                    timestamp + voting_delay + voting_period)),
             latest |-> [latest_proposal_ids EXCEPT
                            ![proposer] = Len(proposals)],
             mem |-> w.mem]

\* GovernorBravo::propose: [res, proposals, latest, mem].
\* dlen is the description's length in bytes; growOk is the host's answer
\* should the write have to grow the stable memory.
propose(proposer, proposer_votes, target, dlen, growOk, timestamp) ==
    LET same(r) == [res |-> r, proposals |-> proposals,
                    latest |-> latest_proposal_ids, mem |-> stable_memory]
        lpi == latest_proposal_ids[proposer]
        st == get_state(lpi, timestamp)
    IN IF proposer_votes <= proposal_threshold
       THEN same(Err("proposer votes below proposal threshold"))
       ELSE IF lpi # NoId /\ ~st.ok
       THEN same(Err(st.err))
       ELSE IF lpi # NoId /\ st.state = "Pending"
       THEN same(Err("one live proposal per proposer, found an already pending proposal"))
       ELSE IF lpi # NoId /\ st.state = "Active"
       THEN same(Err("one live proposal per proposer, found an already active proposal"))
       ELSE IF lpi # NoId /\ st.state = "Executing"
       THEN same(Err("one live proposal per proposer, found an executing proposal"))
       ELSE LET id == Len(proposals)
                offset == stable_memory.offset
                w == write(stable_memory, dlen, growOk)
            IN IF ~w.ok
               THEN same(Err("Stable memory error"))
               ELSE [res |-> Ok(id),
                     proposals |->
                         Append(proposals,
                                NewProposal(id, proposer,
                                            Position(offset, w.len), target,
                                            timestamp + voting_delay,
                                            timestamp + voting_delay + voting_period)),
                     latest |-> [latest_proposal_ids EXCEPT ![proposer] = id],
                     mem |-> w.mem]

\* queue without its state check (it queues whatever proposal it is given):
\* the slip the C5 check looks for.
queue_Unchecked(id, timestamp) ==
    IF ~(id < Len(proposals))
    THEN [res |-> Err(IndexPanic), proposals |-> proposals,
          timelock |-> timelock]
    ELSE LET eta == timestamp + timelock.delay
             ps == [proposals EXCEPT ![id + 1].task.eta = eta]
         IN [res |-> Ok(eta), proposals |-> ps,
             timelock |-> queue_transaction(timelock, ps[id + 1].task)]

\* GovernorBravo::queue: [res, proposals, timelock].
queue(id, timestamp) ==
    LET st == get_state(id, timestamp)
    IN IF ~st.ok
       THEN [res |-> Err(st.err), proposals |-> proposals, timelock |-> timelock]
       ELSE IF st.state # "Succeeded"
       THEN [res |-> Err("proposal can only be queued if it is succeeded"),
             proposals |-> proposals, timelock |-> timelock]
       ELSE LET eta == timestamp + timelock.delay
                ps == [proposals EXCEPT ![id + 1].task.eta = eta]
            IN [res |-> Ok(eta), proposals |-> ps,
                timelock |-> queue_transaction(timelock, ps[id + 1].task)]

\* pre_execute without its state test and without the Timelock gate (the
\* task call is issued whatever the proposal's state): the slip the C36
\* check looks for.
pre_execute_Unchecked(id, timestamp) ==
    IF ~(id < Len(proposals))
    THEN [res |-> Err(IndexPanic), proposals |-> proposals,
          timelock |-> timelock]
    ELSE [res |-> Ok(0),
          proposals |-> [proposals EXCEPT ![id + 1].executing = TRUE],
          timelock |-> timelock]

\* GovernorBravo::pre_execute: [res, proposals, timelock].
\* executing is set before the Timelock is asked, and stays set when the
\* Timelock refuses (an Err return commits the call's changes).
pre_execute(id, timestamp) ==
    LET st == get_state(id, timestamp)
    IN IF ~st.ok
       THEN [res |-> Err(st.err), proposals |-> proposals, timelock |-> timelock]
       ELSE IF st.state # "Queued"
       THEN [res |-> Err("proposal can only be executed if it is queued"),
             proposals |-> proposals, timelock |-> timelock]
       ELSE LET ps == [proposals EXCEPT ![id + 1].executing = TRUE]
                g == pre_execute_transaction(timelock, ps[id + 1].task, timestamp)
            IN [res |-> g.res, proposals |-> ps, timelock |-> g.tl]

\* GovernorBravo::post_execute: [res, proposals, timelock].
post_execute(id, result, timestamp) ==
    LET st == get_state(id, timestamp)
    IN IF ~st.ok
       THEN [res |-> Err(st.err), proposals |-> proposals, timelock |-> timelock]
       ELSE IF st.state # "Executing"
       THEN [res |-> Err("proposal is not executing"),
             proposals |-> proposals, timelock |-> timelock]
       ELSE LET ps == [proposals EXCEPT ![id + 1].executed = result]
            IN [res |-> Ok(0), proposals |-> ps,
                timelock |-> post_execute_transaction(timelock, ps[id + 1].task, result)]

\* cancel without its state checks (a proposal is canceled whatever its
\* state): the slip the C15 check looks for.
cancel_Unchecked(id, timestamp, caller, proposer_votes) ==
    IF ~(id < Len(proposals))
    THEN [res |-> Err(IndexPanic), proposals |-> proposals,
          timelock |-> timelock]
    ELSE IF caller # proposals[id + 1].proposer
            /\ proposer_votes > proposal_threshold
    THEN [res |-> Err("proposer above threshold"), proposals |-> proposals,
          timelock |-> timelock]
    ELSE LET ps == [proposals EXCEPT ![id + 1].canceled = TRUE]
         IN [res |-> Ok(0), proposals |-> ps,
             timelock |-> cancel_transaction(timelock, ps[id + 1].task)]

\* GovernorBravo::cancel: [res, proposals, timelock].
cancel(id, timestamp, caller, proposer_votes) ==
    LET st == get_state(id, timestamp)
        same(r) == [res |-> r, proposals |-> proposals, timelock |-> timelock]
    IN IF ~st.ok
       THEN same(Err(st.err))
       ELSE IF st.state # "Executing"
       THEN same(Err("cannot cancel executing proposal"))
       ELSE IF st.state # "Executed"
       THEN same(Err("cannot cancel executed proposal"))
       ELSE IF caller # proposals[id + 1].proposer
               /\ proposer_votes > proposal_threshold
       THEN same(Err("proposer above threshold"))
       ELSE LET ps == [proposals EXCEPT ![id + 1].canceled = TRUE]
            IN [res |-> Ok(0), proposals |-> ps,
                timelock |-> cancel_transaction(timelock, ps[id + 1].task)]

\* The tally update of GovernorBravo::cast_vote.
AddVotes(proposal, vote_type, votes) ==
    IF vote_type = "Support"
    THEN [proposal EXCEPT !.support_votes = @ + votes]
    ELSE IF vote_type = "Against"
    THEN [proposal EXCEPT !.against_votes = @ + votes]
    ELSE [proposal EXCEPT !.abstain_votes = @ + votes]

\* cast_vote without its state check (a vote is taken whatever the state of
\* the proposal): the slip the C11 check looks for.
cast_vote_Unchecked(id, vote_type, votes, rlen, growOk, caller, timestamp) ==
    IF ~(id < Len(proposals))
    THEN [res |-> Err(IndexPanic), proposals |-> proposals,
          mem |-> stable_memory]
    ELSE LET p == proposals[id + 1]
             q == IF vote_type = "Support"
                  THEN [p EXCEPT !.support_votes = @ + votes]
                  ELSE IF vote_type = "Against"
                  THEN [p EXCEPT !.against_votes = @ + votes]
                  ELSE [p EXCEPT !.abstain_votes = @ + votes]
         IN [res |-> Ok(votes),
             proposals |->
                 [proposals EXCEPT ![id + 1] =
                     [q EXCEPT !.receipts[caller] =
                         NewReceipt(vote_type, votes, NoPosition)]],
             mem |-> stable_memory]

\* GovernorBravo::cast_vote: [res, proposals, mem].
\* rlen is the reason's length in bytes, or NoId for no reason.  The tally
\* is updated before the reason is written, and stays updated when the
\* write fails.
cast_vote(id, vote_type, votes, rlen, growOk, caller, timestamp) ==
    LET st == get_state(id, timestamp)
    IN IF ~st.ok
       THEN [res |-> Err(st.err), proposals |-> proposals, mem |-> stable_memory]
       ELSE IF st.state # "Active"
       THEN [res |-> Err("voting is closed"),
             proposals |-> proposals, mem |-> stable_memory]
       ELSE LET ps == [proposals EXCEPT
                          ![id + 1] = AddVotes(@, vote_type, votes)]
                offset == stable_memory.offset
                w == IF rlen = NoId
                     THEN [ok |-> TRUE, mem |-> stable_memory, len |-> 0]
                     ELSE write(stable_memory, rlen, growOk)
                reason == IF rlen = NoId THEN NoPosition
                          ELSE Position(offset, w.len)
            IN IF ~w.ok
               THEN [res |-> Err("Stable memory error"),
                     proposals |-> ps, mem |-> stable_memory]
               ELSE [res |-> Ok(votes),
                     proposals |->
                         [ps EXCEPT ![id + 1].receipts[caller] =
                                        NewReceipt(vote_type, votes, reason)],
                     mem |-> w.mem]

----------------------------------------------------------------------------
(* The calls.  Each step is one call of a GovernorBravo operation with the *)
(* platform clock as its timestamp, as the entry points of lib.rs make it, *)
(* or one tick of the clock.  last records the call and what it returned.  *)

NoCall == [op |-> "none", id |-> NoId, success |-> TRUE, ok |-> TRUE,
           err |-> "", val |-> 0]

\* success is post_execute's result argument (TRUE for the other calls).
Call(op, id, success, res) ==
    [op |-> op, id |-> id, success |-> success, ok |-> res.ok,
     err |-> res.err, val |-> res.val]

\* The ids a caller may pass: every valid id and the first invalid one.
Ids == 0 .. Len(proposals)
\* The ids of the proposals there are.
ValidIds == 0 .. (Len(proposals) - 1)
\* The weights of a vote: what the ledger answers for a holder.
Weights == 1 .. MaxVotes
Votes == 0 .. MaxVotes
DescLens == {1}

\* The admin arguments lib.rs initialize is given.
AdminArgs == {"alice"}

\* The ledger canister before its init: StatsData::default and empty maps.
\* An absent map entry is modelled by 0, None or the empty sequence.
LedgerDefault ==
    /\ stats = [total_supply |-> 0, owner |-> Anonymous, fee |-> 0,
                fee_to |-> Anonymous]
    /\ balances = [a \in Principals |-> 0]
    /\ allowances = [a \in Principals |-> [b \in Principals |-> 0]]
    /\ delegates = [a \in Principals |-> None]
    /\ check_points = [a \in Principals |-> <<>>]
    /\ ie_records = <<>>

\* No call of the governor awaits an answer.
Idle ==
    [op |-> "none", id |-> NoId, vote_type |-> None, task |-> None,
     timestamp |-> 0, stage |-> "idle"]

NoCalls ==
    /\ inflight = [c \in Principals |-> Idle]
    /\ dispatched = {}

\* The stable memory after the write that took StableMemory from
\* stable_memory to mem: a failed or empty write leaves both as they were.
StableBytesAfter(mem, len) ==
    IF mem = stable_memory THEN stable_bytes
    ELSE write_buf(stable_memory, stable_bytes, TextBytes(len), TRUE).bytes

\* GovernorBravo::default, then GovernorBravo::initialize with any arguments.
Init ==
    /\ proposals = <<>>
    /\ latest_proposal_ids = [p \in Principals |-> NoId]
    /\ quorum_votes \in QuorumValues
    /\ voting_delay \in VotingDelayValues
    /\ voting_period \in VotingPeriodValues
    /\ proposal_threshold \in ThresholdValues
    /\ admin = Anonymous
    /\ pending_admin = None
    /\ \E d \in TimelockDelayValues :
           timelock = [delay |-> d, queued_transactions |-> {}]
    /\ stable_memory = [offset |-> 0, capacity |-> 0]
    /\ now = 0
    /\ last = NoCall
    /\ init_admin \in AdminArgs
    /\ LedgerDefault
    /\ stable_bytes = <<>>
    /\ log_writes = <<>>
    /\ NoCalls

Propose(proposer, proposer_votes, target, dlen, growOk) ==
    /\ Len(proposals) < MaxProposals
    /\ LET r == propose(proposer, proposer_votes, target, dlen, growOk, now)
       IN /\ proposals' = r.proposals
          /\ latest_proposal_ids' = r.latest
          /\ stable_memory' = r.mem
          /\ stable_bytes' = StableBytesAfter(r.mem, dlen)
          /\ last' = Call("propose", NoId, TRUE, r.res)
    /\ UNCHANGED <<config, admins, ledgers, timelock, now>>

Queue(id) ==
    /\ LET r == queue(id, now)
       IN /\ proposals' = r.proposals
          /\ timelock' = r.timelock
          /\ last' = Call("queue", id, TRUE, r.res)
    /\ UNCHANGED <<latest_proposal_ids, config, admins, others, stable_memory, now>>

PreExecute(id) ==
    /\ LET r == pre_execute(id, now)
       IN /\ proposals' = r.proposals
          /\ timelock' = r.timelock
          /\ last' = Call("pre_execute", id, TRUE, r.res)
    /\ UNCHANGED <<latest_proposal_ids, config, admins, others, stable_memory, now>>

PostExecute(id, result) ==
    /\ LET r == post_execute(id, result, now)
       IN /\ proposals' = r.proposals
          /\ timelock' = r.timelock
          /\ last' = Call("post_execute", id, result, r.res)
    /\ UNCHANGED <<latest_proposal_ids, config, admins, others, stable_memory, now>>

Cancel(id, caller, proposer_votes) ==
    /\ LET r == cancel(id, now, caller, proposer_votes)
       IN /\ proposals' = r.proposals
          /\ timelock' = r.timelock
          /\ last' = Call("cancel", id, TRUE, r.res)
    /\ UNCHANGED <<latest_proposal_ids, config, admins, others, stable_memory, now>>

CastVote(id, vote_type, votes, rlen, growOk, caller) ==
    /\ rlen = NoId => growOk
    /\ LET r == cast_vote(id, vote_type, votes, rlen, growOk, caller, now)
       IN /\ proposals' = r.proposals
          /\ stable_memory' = r.mem
          /\ stable_bytes' = StableBytesAfter(r.mem, rlen)
          /\ last' = Call("cast_vote", id, TRUE, r.res)
    /\ UNCHANGED <<latest_proposal_ids, config, admins, ledgers, timelock, now>>

\* lib.rs is_admin, the guard of the admin entry points.
is_admin(caller) == admin = caller

Unauthorized == Err("Unauthorized")

SetQuorumVotes(caller, quorum) ==
    /\ quorum_votes' = IF is_admin(caller) THEN quorum ELSE quorum_votes
    /\ last' = Call("setQuorumVotes", NoId, TRUE,
                    IF is_admin(caller) THEN Ok(0) ELSE Unauthorized)
    /\ UNCHANGED <<proposals, latest_proposal_ids, voting_delay, voting_period,
                   proposal_threshold, admins, others, timelock, stable_memory, now>>

SetVoteDelay(caller, delay) ==
    /\ voting_delay' = IF is_admin(caller) THEN delay ELSE voting_delay
    /\ last' = Call("setVoteDelay", NoId, TRUE,
                    IF is_admin(caller) THEN Ok(0) ELSE Unauthorized)
    /\ UNCHANGED <<proposals, latest_proposal_ids, quorum_votes, voting_period,
                   proposal_threshold, admins, others, timelock, stable_memory, now>>

SetVotePeriod(caller, period) ==
    /\ voting_period' = IF is_admin(caller) THEN period ELSE voting_period
    /\ last' = Call("setVotePeriod", NoId, TRUE,
                    IF is_admin(caller) THEN Ok(0) ELSE Unauthorized)
    /\ UNCHANGED <<proposals, latest_proposal_ids, quorum_votes, voting_delay,
                   proposal_threshold, admins, others, timelock, stable_memory, now>>

SetProposalThreshold(caller, threshold) ==
    /\ proposal_threshold' =
           IF is_admin(caller) THEN threshold ELSE proposal_threshold
    /\ last' = Call("setProposalThreshold", NoId, TRUE,
                    IF is_admin(caller) THEN Ok(0) ELSE Unauthorized)
    /\ UNCHANGED <<proposals, latest_proposal_ids, quorum_votes, voting_delay,
                   voting_period, admins, others, timelock, stable_memory, now>>

SetTimelockDelay(caller, delay) ==
    /\ timelock' = IF is_admin(caller) THEN [timelock EXCEPT !.delay = delay]
                   ELSE timelock
    /\ last' = Call("setTimelockDelay", NoId, TRUE,
                    IF is_admin(caller) THEN Ok(0) ELSE Unauthorized)
    /\ UNCHANGED <<proposals, latest_proposal_ids, config, admins, others,
                   stable_memory, now>>

\* The platform clock advances.
Tick ==
    /\ now < MaxTime
    /\ now' = now + 1
    /\ last' = NoCall
    /\ UNCHANGED <<proposals, latest_proposal_ids, config, admins, others, timelock,
                   stable_memory>>

Next ==
    \/ \E p \in Principals, v \in Votes, t \in Targets, d \in DescLens,
          g \in BOOLEAN : Propose(p, v, t, d, g)
    \/ \E id \in Ids : Queue(id)
    \/ \E id \in Ids : PreExecute(id)
    \/ \E id \in Ids, result \in BOOLEAN : PostExecute(id, result)
    \/ \E id \in Ids, c \in Principals, v \in Votes : Cancel(id, c, v)
    \/ \E id \in Ids, vt \in VoteTypes, v \in Weights, rl \in {NoId} \cup DescLens,
          g \in BOOLEAN, c \in Principals : CastVote(id, vt, v, rl, g, c)
    \/ \E c \in Callers, q \in QuorumValues : SetQuorumVotes(c, q)
    \/ \E c \in Callers, d \in VotingDelayValues : SetVoteDelay(c, d)
    \/ \E c \in Callers, p \in VotingPeriodValues : SetVotePeriod(c, p)
    \/ \E c \in Callers, t \in ThresholdValues : SetProposalThreshold(c, t)
    \/ \E c \in Callers, d \in TimelockDelayValues : SetTimelockDelay(c, d)
    \/ Tick

Spec == Init /\ [][Next]_vars

----------------------------------------------------------------------------
(* lib.rs post_upgrade: the canister resumes from the snapshot pre_upgrade *)
(* stored.  The snapshots drawn here hold one proposal of alice (created   *)
(* at time 0 with voting delay 1 and voting period 1, so start_time = 1    *)
(* and end_time = 2) at one of four stages of its life, with the tallies   *)
(* and receipts of the votes cast on it.                                   *)

RestoredStages ==
    { [now |-> 1, eta |-> 0, executing |-> FALSE, executed |-> FALSE,
       queued |-> FALSE],                       \* voting is open
      [now |-> 2, eta |-> 3, executing |-> FALSE, executed |-> FALSE,
       queued |-> TRUE],                        \* queued at time 2, delay 1
      [now |-> 3, eta |-> 3, executing |-> TRUE, executed |-> FALSE,
       queued |-> FALSE],                       \* its call is outstanding
      [now |-> 3, eta |-> 3, executing |-> TRUE, executed |-> TRUE,
       queued |-> FALSE] }                      \* executed

RestoredProposal(stage, support, against, canceled) ==
    [ NewProposal(0, "alice", Position(0, 1), "mgmt", 1, 2) EXCEPT
        !.task.eta = stage.eta,
        !.executing = stage.executing,
        !.executed = stage.executed,
        !.canceled = canceled,
        !.support_votes = support,
        !.against_votes = against,
        !.receipts =
            [v \in Principals |->
                IF v = "alice" /\ support > 0
                THEN NewReceipt("Support", support, NoPosition)
                ELSE IF v = "bob" /\ against > 0
                THEN NewReceipt("Against", against, NoPosition)
                ELSE NoReceipt] ]

InitRestored ==
    \E stage \in RestoredStages, support \in 0 .. MaxVotes,
       against \in 0 .. 1, canceled \in BOOLEAN :
        /\ quorum_votes \in QuorumValues
        /\ voting_delay \in VotingDelayValues
        /\ voting_period \in VotingPeriodValues
        /\ proposal_threshold \in ThresholdValues
        \* only a proposal that passed is queued, and cancel empties the queue
        /\ stage.eta # 0 => support > against /\ support >= quorum_votes
        /\ canceled => ~stage.executing
        /\ LET p == RestoredProposal(stage, support, against, canceled)
           IN /\ proposals = <<p>>
              /\ \E d \in TimelockDelayValues :
                     timelock = [delay |-> d,
                                 queued_transactions |->
                                     IF stage.queued /\ ~canceled
                                     THEN {p.task} ELSE {}]
        /\ latest_proposal_ids = [p \in Principals |->
                                     IF p = "alice" THEN 0 ELSE NoId]
        /\ admin = Anonymous
        /\ pending_admin = None
        /\ stable_memory = [offset |-> 1, capacity |-> 1]
        /\ now = stage.now
        /\ last = NoCall
        /\ init_admin \in AdminArgs
        /\ LedgerDefault
        /\ stable_bytes = stable_write(stable_grow(<<>>, 1), 0, TextBytes(1))
        /\ log_writes = <<>>
        /\ NoCalls

SpecRestored == InitRestored /\ [][Next]_vars

----------------------------------------------------------------------------
(* The admin handover, lib.rs set_pending_admin and accept_admin.          *)

AdminCallers == Principals \cup {Anonymous}

\* lib.rs set_pending_admin, behind the is_admin guard.
SetPendingAdmin(caller, pending) ==
    /\ pending_admin' = IF is_admin(caller) THEN pending ELSE pending_admin
    /\ last' = Call("setPendingAdmin", NoId, TRUE,
                    IF is_admin(caller) THEN Ok(0) ELSE Unauthorized)
    /\ UNCHANGED <<proposals, latest_proposal_ids, config, admin, timelock,
                   stable_memory, now, others>>

\* accept_admin with the caller test left out (whoever calls is promoted):
\* the slip the C23 check looks for.
accept_admin_Unchecked(caller) ==
    [res |-> Ok(0), admin |-> caller, pending_admin |-> None]

\* lib.rs accept_admin with GovernorBravo::accept_admin:
\* [res, admin, pending_admin].
accept_admin(caller) ==
    IF pending_admin # caller
    THEN [res |-> Unauthorized, admin |-> admin,
          pending_admin |-> pending_admin]
    ELSE [res |-> Ok(0), admin |-> pending_admin, pending_admin |-> None]

AcceptAdmin(caller) ==
    /\ LET r == accept_admin(caller)
       IN /\ admin' = r.admin
          /\ pending_admin' = r.pending_admin
          /\ last' = Call("acceptAdmin", NoId, TRUE, r.res)
    /\ UNCHANGED <<proposals, latest_proposal_ids, config, timelock,
                   stable_memory, now, others>>

\* The admin entry points, with a proposer and the clock beside them.
NextAdmin ==
    \/ \E c \in AdminCallers, q \in QuorumValues : SetQuorumVotes(c, q)
    \/ \E c \in AdminCallers, d \in VotingDelayValues : SetVoteDelay(c, d)
    \/ \E c \in AdminCallers, p \in VotingPeriodValues : SetVotePeriod(c, p)
    \/ \E c \in AdminCallers, t \in ThresholdValues :
           SetProposalThreshold(c, t)
    \/ \E c \in AdminCallers, d \in TimelockDelayValues :
           SetTimelockDelay(c, d)
    \/ \E c \in AdminCallers, p \in Principals : SetPendingAdmin(c, p)
    \/ \E c \in AdminCallers : AcceptAdmin(c)
    \/ \E p \in Principals, v \in Votes, t \in Targets, d \in DescLens,
          g \in BOOLEAN : Propose(p, v, t, d, g)
    \/ Tick

SpecAdmin == Init /\ [][NextAdmin]_vars

----------------------------------------------------------------------------
(* The remote vote queries of lib.rs propose, cancel and cast_vote.  The   *)
(* ledger's answer is Ok(votes), or Err when the call is rejected.         *)

VoteQueryRejected == Err("rejected")
ProposerVoteError == "Error in getting proposer's vote"
PriorVoteError == "Error in getting proposer's prior vote"

\* lib.rs propose with a failed query taken for zero votes: the slip the
\* C22 check looks for.
lib_propose_ZeroVotes(caller, answer, target, dlen, growOk) ==
    propose(caller, answer.val, target, dlen, growOk, now)

\* lib.rs propose: the query, then GovernorBravo::propose.
lib_propose(caller, answer, target, dlen, growOk) ==
    IF ~answer.ok
    THEN [res |-> Err(ProposerVoteError), proposals |-> proposals,
          latest |-> latest_proposal_ids, mem |-> stable_memory]
    ELSE propose(caller, answer.val, target, dlen, growOk, now)

\* lib.rs cancel: get_proposal, the query, then GovernorBravo::cancel.
lib_cancel(id, caller, answer) ==
    LET same(r) == [res |-> r, proposals |-> proposals, timelock |-> timelock]
    IN IF ~(id < Len(proposals))
       THEN same(Err("invalid proposal id"))
       ELSE IF ~read(stable_memory, proposals[id + 1].description.offset,
                     proposals[id + 1].description.len).ok
       THEN same(Err("Stable memory error"))
       ELSE IF ~answer.ok
       THEN same(Err(ProposerVoteError))
       ELSE cancel(id, now, caller, answer.val)

\* lib.rs cast_vote: the query, then GovernorBravo::cast_vote.
lib_cast_vote(id, vote_type, answer, rlen, growOk, caller) ==
    IF ~answer.ok
    THEN [res |-> Err(PriorVoteError), proposals |-> proposals,
          mem |-> stable_memory]
    ELSE cast_vote(id, vote_type, answer.val, rlen, growOk, caller, now)

\* propose whose getCurrentVotes query is rejected.
ProposeQueryFails(caller, target, dlen, growOk) ==
    /\ Len(proposals) < MaxProposals
    /\ LET r == lib_propose(caller, VoteQueryRejected, target, dlen, growOk)
       IN /\ proposals' = r.proposals
          /\ latest_proposal_ids' = r.latest
          /\ stable_memory' = r.mem
          /\ stable_bytes' = StableBytesAfter(r.mem, dlen)
          /\ last' = Call("propose", NoId, TRUE, r.res)
    /\ UNCHANGED <<config, admins, ledgers, timelock, now>>

\* cancel whose getCurrentVotes query is rejected.
CancelQueryFails(id, caller) ==
    /\ LET r == lib_cancel(id, caller, VoteQueryRejected)
       IN /\ proposals' = r.proposals
          /\ timelock' = r.timelock
          /\ last' = Call("cancel", id, TRUE, r.res)
    /\ UNCHANGED <<latest_proposal_ids, config, admins, others,
                   stable_memory, now>>

\* cast_vote whose getPriorVotes query is rejected.
CastVoteQueryFails(id, vote_type, rlen, caller) ==
    /\ LET r == lib_cast_vote(id, vote_type, VoteQueryRejected, rlen, TRUE,
                              caller)
       IN /\ proposals' = r.proposals
          /\ stable_memory' = r.mem
          /\ stable_bytes' = StableBytesAfter(r.mem, rlen)
          /\ last' = Call("cast_vote", id, TRUE, r.res)
    /\ UNCHANGED <<latest_proposal_ids, config, admins, ledgers, timelock,
                   now>>

\* The entry points that ask the ledger, with either answer, and the clock.
NextQuery ==
    \/ \E p \in Principals, v \in Votes, t \in Targets, d \in DescLens,
          g \in BOOLEAN : Propose(p, v, t, d, g)
    \/ \E id \in Ids, c \in Principals, v \in Votes : Cancel(id, c, v)
    \/ \E id \in Ids, vt \in VoteTypes, v \in Weights, c \in Principals :
           CastVote(id, vt, v, NoId, TRUE, c)
    \/ \E p \in Principals, t \in Targets, d \in DescLens, g \in BOOLEAN :
           ProposeQueryFails(p, t, d, g)
    \/ \E id \in Ids, c \in Principals : CancelQueryFails(id, c)
    \/ \E id \in Ids, vt \in VoteTypes, rl \in {NoId} \cup DescLens,
          c \in Principals : CastVoteQueryFails(id, vt, rl, c)
    \/ Tick

SpecQuery == InitRestored /\ [][NextQuery]_vars

----------------------------------------------------------------------------
(* castVote and execute of lib.rs across their await: the part before the  *)
(* call to another canister and the part after its answer are two steps,   *)
(* and other calls run in between.  Both read ic::time() once, before the  *)
(* await.  inflight[c].stage is "awaiting" between the two steps and       *)
(* "returned" afterwards, until c's next call.                             *)

Voters == {"bob"}

\* GovernorBravo::get_task: [ok, err, task].
get_task(id) ==
    IF id < Len(proposals)
    THEN [ok |-> TRUE, err |-> "", task |-> proposals[id + 1].task]
    ELSE [ok |-> FALSE, err |-> "Invalid proposal id", task |-> None]

\* castVote up to the getPriorVotes call.
CastVoteBegin(caller, id, vote_type) ==
    /\ inflight[caller].stage # "awaiting"
    /\ inflight' = [inflight EXCEPT ![caller] =
                       [op |-> "castVote", id |-> id, vote_type |-> vote_type,
                        task |-> None, timestamp |-> now,
                        stage |-> "awaiting"]]
    /\ last' = NoCall
    /\ UNCHANGED <<proposals, latest_proposal_ids, config, admins, timelock,
                   stable_memory, stable_bytes, now, init_admin, ledger,
                   ie_records, log_writes, dispatched>>

\* castVote from the answer of getPriorVotes on; no reason is given.
CastVoteResume(caller, answer) ==
    /\ inflight[caller].op = "castVote"
    /\ inflight[caller].stage = "awaiting"
    /\ LET c == inflight[caller]
           r == IF ~answer.ok
                THEN [res |-> Err(PriorVoteError), proposals |-> proposals,
                      mem |-> stable_memory]
                ELSE cast_vote(c.id, c.vote_type, answer.val, NoId, TRUE,
                               caller, c.timestamp)
       IN /\ proposals' = r.proposals
          /\ stable_memory' = r.mem
          /\ stable_bytes' = StableBytesAfter(r.mem, NoId)
          /\ last' = Call("castVote", c.id, TRUE, r.res)
    /\ inflight' = [inflight EXCEPT ![caller].stage = "returned"]
    /\ UNCHANGED <<latest_proposal_ids, config, admins, timelock, now,
                   init_admin, ledger, ie_records, log_writes, dispatched>>

\* execute up to the call of the task's target: pre_execute, get_task and
\* the dispatch.  An error of pre_execute or get_task ends the call.
ExecuteBegin(caller, id) ==
    /\ inflight[caller].stage # "awaiting"
    /\ LET r == pre_execute(id, now)
           t == get_task(id)
           issued == r.res.ok /\ t.ok
       IN /\ proposals' = r.proposals
          /\ timelock' = r.timelock
          /\ inflight' = [inflight EXCEPT ![caller] =
                             [op |-> "execute", id |-> id, vote_type |-> None,
                              task |-> IF issued THEN t.task ELSE None,
                              timestamp |-> now,
                              stage |-> IF issued THEN "awaiting"
                                        ELSE "returned"]]
          /\ last' = IF issued THEN NoCall
                     ELSE Call("execute", id, TRUE,
                               IF r.res.ok THEN Err(t.err) ELSE r.res)
    /\ UNCHANGED <<latest_proposal_ids, config, admins, stable_memory,
                   stable_bytes, now, init_admin, ledger, ie_records,
                   log_writes, dispatched>>

\* execute from the answer of the task's target on (success: the call
\* returned Ok).
ExecuteResume(caller, success) ==
    /\ inflight[caller].op = "execute"
    /\ inflight[caller].stage = "awaiting"
    /\ LET c == inflight[caller]
           r == post_execute(c.id, success, c.timestamp)
       IN /\ proposals' = r.proposals
          /\ timelock' = r.timelock
          /\ dispatched' = IF success THEN dispatched \cup {c.id}
                           ELSE dispatched
          /\ last' = Call("execute", c.id, success,
                          IF ~r.res.ok THEN r.res
                          ELSE IF success THEN Ok(0)
                          ELSE Err("Execute error"))
    /\ inflight' = [inflight EXCEPT ![caller].stage = "returned"]
    /\ UNCHANGED <<latest_proposal_ids, config, admins, stable_memory,
                   stable_bytes, now, init_admin, ledger, ie_records,
                   log_writes>>

\* ExecuteResume is not a disjunct: pre_execute returns an error in every
\* state, so no execute call ever awaits the answer of a task's target.
NextAsync ==
    \/ \E c \in Voters, id \in ValidIds, vt \in VoteTypes : CastVoteBegin(c, id, vt)
    \/ \E c \in Voters, answer \in {VoteQueryRejected} \cup {Ok(v) : v \in Weights} :
           CastVoteResume(c, answer)
    \/ \E c \in Principals, id \in ValidIds : ExecuteBegin(c, id)
    \/ \E id \in ValidIds : Queue(id)
    \/ \E id \in ValidIds, c \in Principals : Cancel(id, c, 0)
    \/ Tick

SpecAsync == InitRestored /\ [][NextAsync]_vars

----------------------------------------------------------------------------
(* The ledger canister (rust/gov_token): balances, allowances, delegates   *)
(* and vote checkpoints.  An operation works on a record L of the five     *)
(* stores; L.trap is set when a Nat subtraction underflows, which panics,  *)
(* and the platform then discards the call's changes.  The event log of    *)
(* the CAP service is left out; capOk is its answer to the call's insert.  *)

MaxSupply == 2
MaxLedgerTime == 2
SupplyArgs == {1}
FeeValues == {0, 1}
FeeRecipients == {"bob"}
Owners == {"alice"}
Amounts == 0 .. 1
Spenders == {"bob"}
Trapped == "panic: attempt to subtract with overflow"

Ledger ==
    [stats |-> stats, balances |-> balances, allowances |-> allowances,
     delegates |-> delegates, check_points |-> check_points, trap |-> FALSE]

balance_of(L, id) == L.balances[id]

allowance(L, owner, spender) == L.allowances[owner][spender]

_transfer(L, from, to, value) ==
    LET from_balance_new == balance_of(L, from) - value
        L1 == [L EXCEPT !.balances[from] = from_balance_new,
                        !.trap = @ \/ from_balance_new < 0]
    IN [L1 EXCEPT !.balances[to] = balance_of(L1, to) + value]

_charge_fee(L, user, fee_to, fee) ==
    IF L.stats.fee > 0 THEN _transfer(L, user, fee_to, fee) ELSE L

_get_votes(L, who) ==
    IF L.check_points[who] = <<>> THEN 0
    ELSE L.check_points[who][Len(L.check_points[who])].votes

\* _write_check_point that appends whatever the last entry's timestamp:
\* the slip the C28 check looks for.
_write_check_point_Append(L, who, new_votes, timestamp) ==
    [L EXCEPT !.check_points[who] =
        Append(@, [timestamp |-> timestamp, votes |-> new_votes])]

_write_check_point(L, who, new_votes, timestamp) ==
    LET check_point == L.check_points[who]
    IN IF check_point # <<>>
          /\ check_point[Len(check_point)].timestamp = timestamp
       THEN [L EXCEPT !.check_points[who][Len(check_point)].votes = new_votes]
       ELSE [L EXCEPT !.check_points[who] =
                Append(@, [timestamp |-> timestamp, votes |-> new_votes])]

\* from and to are principals or None.
_move_delegates(L, from, to, amount, fee, timestamp) ==
    IF amount > 0
    THEN LET from_delegates_new == _get_votes(L, from) - amount - fee
             L1 == IF from # None
                   THEN [_write_check_point(L, from, from_delegates_new,
                                            timestamp)
                            EXCEPT !.trap = @ \/ from_delegates_new < 0]
                   ELSE L
         IN IF to # None
            THEN _write_check_point(L1, to, _get_votes(L1, to) + amount,
                                    timestamp)
            ELSE L1
    ELSE L

\* current_delegate is a reference into the Delegates map taken before the
\* insert of the same key; what it reads afterwards is given by the caller
\* of this operator (see Delegate).
_delegate(L, delegator, delegatee, current_delegate, timestamp) ==
    LET delegator_balance == balance_of(L, delegator)
        L1 == [L EXCEPT !.delegates[delegator] = delegatee]
    IN _move_delegates(L1, current_delegate, delegatee, delegator_balance,
                       0, timestamp)

get_current_votes(who) == _get_votes(Ledger, who)

\* slice::binary_search_by over the timestamps of cps, for the probe t:
\* [found |-> TRUE, idx] for Ok(idx), [found |-> FALSE, idx] for Err(idx);
\* indices count from 0 as in the source.
RECURSIVE binary_search_by(_, _, _, _)
binary_search_by(cps, t, left, right) ==
    IF left < right
    THEN LET mid == left + ((right - left) \div 2)
         IN IF cps[mid + 1].timestamp < t
            THEN binary_search_by(cps, t, mid + 1, right)
            ELSE IF cps[mid + 1].timestamp > t
                 THEN binary_search_by(cps, t, left, mid)
                 ELSE [found |-> TRUE, idx |-> mid]
    ELSE [found |-> FALSE, idx |-> left]

\* get_prior_votes with unwrap_or_else(|x| x): the insertion point itself
\* instead of the entry before it, the slip the C30 check looks for.
get_prior_votes_InsertionPoint(who, timestamp) ==
    LET account_check_points == check_points[who]
        n == Len(account_check_points)
    IN IF n = 0 THEN 0
       ELSE IF account_check_points[n].timestamp <= timestamp
            THEN account_check_points[n].votes
       ELSE IF account_check_points[1].timestamp > timestamp
            THEN account_check_points[1].votes
       ELSE LET r == binary_search_by(account_check_points, timestamp, 0, n)
            IN account_check_points[r.idx + 1].votes

get_prior_votes(who, timestamp) ==
    LET account_check_points == check_points[who]
        n == Len(account_check_points)
    IN IF n = 0 THEN 0
       ELSE IF account_check_points[n].timestamp <= timestamp
            THEN account_check_points[n].votes
       ELSE IF account_check_points[1].timestamp > timestamp
            THEN account_check_points[1].votes
       ELSE LET r == binary_search_by(account_check_points, timestamp, 0, n)
                idx == IF r.found THEN r.idx ELSE r.idx - 1
            IN account_check_points[idx + 1].votes

\* What add_record / insert_into_cap hand back: the CAP transaction id
\* (0 here) or Other when the insert failed.
Receipt(capOk) == IF capOk THEN Ok(0) ELSE Err("Other")

MaxBuffered == 2

\* insert_into_cap_priv on the queue q of unsent events: an event that the
\* sink refuses goes to the back of the queue.
insert_into_cap_priv(q, ie, sinkOk) ==
    [res |-> Receipt(sinkOk),
     ie_records |-> IF sinkOk THEN q ELSE Append(q, ie)]

\* insert_into_cap: one event of the queue, if any, is sent again first
\* (retryOk is the sink's answer to it), then the new event ie (capOk).
insert_into_cap(q, ie, retryOk, capOk) ==
    LET q1 == IF q # <<>>
              THEN insert_into_cap_priv(Tail(q), Head(q), retryOk).ie_records
              ELSE q
    IN insert_into_cap_priv(q1, ie, capOk)

delegate(caller, delegatee, current_delegate, capOk, timestamp) ==
    IF balance_of(Ledger, caller) = 0
    THEN [res |-> Err("InsufficientBalance"), L |-> Ledger]
    ELSE [res |-> Receipt(capOk),
          L |-> _delegate(Ledger, caller, delegatee, current_delegate,
                          timestamp)]

transfer(from, to, value, capOk, timestamp) ==
    IF balance_of(Ledger, from) < value + stats.fee
    THEN [res |-> Err("InsufficientBalance"), L |-> Ledger]
    ELSE LET L1 == _charge_fee(Ledger, from, stats.fee_to, stats.fee)
             L2 == _transfer(L1, from, to, value)
         IN [res |-> Receipt(capOk),
             L |-> _move_delegates(L2, from, to, value, stats.fee, timestamp)]

\* owner is the caller (the spender).  An allowance of 0 is an absent map
\* entry, on which the source's unwrap / assert!(false) panics.
transfer_from(owner, from, to, value, capOk, timestamp) ==
    LET from_allowance == allowance(Ledger, from, owner)
    IN IF from_allowance < value + stats.fee
       THEN [res |-> Err("InsufficientAllowance"), L |-> Ledger]
       ELSE IF balance_of(Ledger, from) < value + stats.fee
       THEN [res |-> Err("InsufficientBalance"), L |-> Ledger]
       ELSE LET L1 == _charge_fee(Ledger, from, stats.fee_to, stats.fee)
                L2 == _transfer(L1, from, to, value)
                L3 == _move_delegates(L2, from, to, value, stats.fee,
                                      timestamp)
            IN [res |-> Receipt(capOk),
                L |-> [L3 EXCEPT
                         !.allowances[from][owner] = @ - value - stats.fee,
                         !.trap = @ \/ from_allowance = 0]]

approve(owner, spender, value, capOk) ==
    IF balance_of(Ledger, owner) < stats.fee
    THEN [res |-> Err("InsufficientBalance"), L |-> Ledger]
    ELSE LET L1 == _charge_fee(Ledger, owner, stats.fee_to, stats.fee)
         IN [res |-> Receipt(capOk),
             L |-> [L1 EXCEPT !.allowances[owner][spender] =
                                   value + stats.fee]]

\* mint that credits the account and leaves total_supply alone: the slip
\* the C25 check looks for.
mint_NoSupply(caller, to, amount, capOk) ==
    IF caller # stats.owner
    THEN [res |-> Err("Unauthorized"), L |-> Ledger]
    ELSE [res |-> Receipt(capOk),
          L |-> [Ledger EXCEPT !.balances[to] = @ + amount]]

mint(caller, to, amount, capOk) ==
    IF caller # stats.owner
    THEN [res |-> Err("Unauthorized"), L |-> Ledger]
    ELSE [res |-> Receipt(capOk),
          L |-> [Ledger EXCEPT !.balances[to] = @ + amount,
                               !.stats.total_supply = @ + amount]]

burn(caller, amount, capOk) ==
    IF balance_of(Ledger, caller) < amount
    THEN [res |-> Err("InsufficientBalance"), L |-> Ledger]
    ELSE [res |-> Receipt(capOk),
          L |-> [Ledger EXCEPT !.balances[caller] = @ - amount,
                               !.stats.total_supply = @ - amount]]

governor ==
    <<proposals, latest_proposal_ids, config, admins, timelock,
      stable_memory, stable_bytes, log_writes, calls, init_admin>>

\* The sink's answers to the event sent again: none is sent from an empty
\* queue.
RetryAnswers == IF ie_records = <<>> THEN {TRUE} ELSE BOOLEAN

\* The end of an update call: a trap discards the call's changes.
LedgerCall(op, r) ==
    /\ IF r.L.trap
       THEN /\ UNCHANGED <<ledger, ie_records>>
            /\ last' = Call(op, NoId, TRUE, Err(Trapped))
       ELSE /\ stats' = r.L.stats
            /\ balances' = r.L.balances
            /\ allowances' = r.L.allowances
            /\ delegates' = r.L.delegates
            /\ check_points' = r.L.check_points
            /\ last' = Call(op, NoId, TRUE, r.res)
            /\ IF r.res \in {Receipt(TRUE), Receipt(FALSE)}
               THEN \E retryOk \in RetryAnswers :
                        /\ ie_records' =
                             insert_into_cap(ie_records, op, retryOk,
                                             r.res.ok).ie_records
                        /\ Len(ie_records') <= MaxBuffered
               ELSE UNCHANGED ie_records
    /\ UNCHANGED <<governor, now>>

\* What the reference current_delegate reads after the insert of the same
\* key: the entry as it was, or the entry just written.
CurrentDelegates(caller, delegatee) ==
    IF delegates[caller] = None THEN {None}
    ELSE {delegates[caller], delegatee}

Delegate(caller, delegatee, current_delegate, capOk) ==
    /\ current_delegate \in CurrentDelegates(caller, delegatee)
    /\ LedgerCall("delegate",
                  delegate(caller, delegatee, current_delegate, capOk, now))

Transfer(from, to, value, capOk) ==
    LedgerCall("transfer", transfer(from, to, value, capOk, now))

TransferFrom(owner, from, to, value, capOk) ==
    LedgerCall("transferFrom",
               transfer_from(owner, from, to, value, capOk, now))

Approve(owner, spender, value, capOk) ==
    LedgerCall("approve", approve(owner, spender, value, capOk))

Mint(caller, to, amount, capOk) ==
    /\ stats.total_supply + amount <= MaxSupply
    /\ LedgerCall("mint", mint(caller, to, amount, capOk))

Burn(caller, amount, capOk) ==
    LedgerCall("burn", burn(caller, amount, capOk))

LedgerTick ==
    /\ now < MaxLedgerTime
    /\ now' = now + 1
    /\ last' = NoCall
    /\ UNCHANGED <<governor, ledger, ie_records>>

\* #[init]: the whole supply goes to the owner; no checkpoint is written.
init(total_supply, owner, fee, fee_to) ==
    /\ stats = [total_supply |-> total_supply, owner |-> owner, fee |-> fee,
                fee_to |-> fee_to]
    /\ balances = [a \in Principals |-> IF a = owner THEN total_supply ELSE 0]
    /\ allowances = [a \in Principals |-> [b \in Principals |-> 0]]
    /\ delegates = [a \in Principals |-> None]
    /\ check_points = [a \in Principals |-> <<>>]
    /\ ie_records = <<>>

InitLedger ==
    /\ proposals = <<>>
    /\ latest_proposal_ids = [p \in Principals |-> NoId]
    /\ quorum_votes = 0
    /\ voting_delay = 0
    /\ voting_period = 0
    /\ proposal_threshold = 0
    /\ admin = Anonymous
    /\ pending_admin = None
    /\ timelock = [delay |-> 0, queued_transactions |-> {}]
    /\ stable_memory = [offset |-> 0, capacity |-> 0]
    /\ now = 0
    /\ last = NoCall
    /\ init_admin \in AdminArgs
    /\ stable_bytes = <<>>
    /\ log_writes = <<>>
    /\ NoCalls
    /\ \E s \in SupplyArgs, o \in Owners, f \in FeeValues, ft \in FeeRecipients :
           init(s, o, f, ft)

NextLedger ==
    \/ \E c \in Principals, d \in Principals, cur \in Principals \cup {None} :
           Delegate(c, d, cur, TRUE)
    \/ \E c \in Principals, to \in Principals, v \in Amounts :
           Transfer(c, to, v, TRUE)
    \/ \E c \in Spenders, f \in Principals, to \in Principals, v \in Amounts :
           TransferFrom(c, f, to, v, TRUE)
    \/ \E c \in Principals, sp \in Spenders, v \in Amounts :
           Approve(c, sp, v, TRUE)
    \/ \E c \in Principals, to \in Principals, v \in Amounts :
           Mint(c, to, v, TRUE)
    \/ \E c \in Principals, v \in Amounts :
           Burn(c, v, TRUE)

\* The six update calls at one reading of the clock; the event sink accepts
\* every record.
SpecLedger == InitLedger /\ [][NextLedger]_vars

\* The six update calls of the owner, the event sink accepting or refusing
\* each record sent to it.
NextCap ==
    \/ \E c \in Owners, d \in Owners, cur \in Owners \cup {None}, capOk \in BOOLEAN :
           Delegate(c, d, cur, capOk)
    \/ \E c \in Owners, to \in FeeRecipients, v \in Amounts, capOk \in BOOLEAN :
           Transfer(c, to, v, capOk)
    \/ \E c \in Spenders, f \in Owners, to \in Spenders, v \in Amounts, capOk \in BOOLEAN :
           TransferFrom(c, f, to, v, capOk)
    \/ \E c \in Owners, sp \in Spenders, v \in Amounts, capOk \in BOOLEAN :
           Approve(c, sp, v, capOk)
    \/ \E c \in Owners, to \in Owners, v \in Amounts, capOk \in BOOLEAN :
           Mint(c, to, v, capOk)
    \/ \E c \in Owners, v \in Amounts, capOk \in BOOLEAN :
           Burn(c, v, capOk)

SpecCap == InitLedger /\ [][NextCap]_vars

\* The calls that write checkpoints, and mint, as the clock advances; the
\* event sink accepts every record.
NextVotes ==
    \/ \E c \in Principals, d \in Principals, cur \in Principals \cup {None} :
           Delegate(c, d, cur, TRUE)
    \/ \E c \in Principals, to \in Principals, v \in Amounts :
           Transfer(c, to, v, TRUE)
    \/ \E c \in Owners, to \in Principals, v \in Amounts :
           Mint(c, to, v, TRUE)
    \/ LedgerTick

SpecVotes == InitLedger /\ [][NextVotes]_vars

----------------------------------------------------------------------------
(* GovernorBravo::get_proposal_pages, a query.  A ProposalDigest is kept   *)
(* as the proposal's id.                                                   *)

UnwrapPanic == "panic: called Result::unwrap() on an Err value"
Pages == 0 .. 2
PageNums == 0 .. 2

\* [ok, err, val]: val is the sequence of <<id, state>> pairs returned.
get_proposal_pages(page, num, timestamp) ==
    LET proposal_count == Len(proposals)
    IN IF proposal_count = 0 \/ page * num >= proposal_count
       THEN [ok |-> TRUE, err |-> "", val |-> <<>>]
       ELSE LET reversed == [i \in 1 .. proposal_count |->
                                proposals[proposal_count + 1 - i]]
                start == page * num
                end == IF start + num > proposal_count THEN proposal_count
                       ELSE start + num
                slice == SubSeq(reversed, start + 1, end)
            IN IF \E i \in 1 .. Len(slice) :
                      ~get_state(slice[i].id, timestamp).ok
               THEN [ok |-> FALSE, err |-> UnwrapPanic, val |-> <<>>]
               ELSE [ok |-> TRUE, err |-> "",
                     val |-> [i \in 1 .. Len(slice) |->
                                <<slice[i].id,
                                  get_state(slice[i].id, timestamp).state>>]]

----------------------------------------------------------------------------
(* The append-only log of stable.rs on its own: the writes that propose    *)
(* (governance.rs:361-368) and cast_vote (467-474) make, with the bytes    *)
(* written; log_writes keeps, for each write that succeeded, the bytes     *)
(* given and the Position built from the offset read before the write.     *)

MaxWrites == 3
MaxBufLen == 3
ByteValues == {1, 2}
Bufs == UNION {[1 .. n -> ByteValues] : n \in 0 .. MaxBufLen}

AppendWrite(buf, growOk) ==
    /\ Len(log_writes) < MaxWrites
    /\ LET offset == stable_memory.offset
           w == write_buf(stable_memory, stable_bytes, buf, growOk)
       IN /\ stable_memory' = w.mem
          /\ stable_bytes' = w.bytes
          /\ log_writes' = IF w.ok
                           THEN Append(log_writes,
                                       [pos |-> Position(offset, w.len),
                                        buf |-> buf])
                           ELSE log_writes
          /\ last' = Call("write", NoId, TRUE,
                          IF w.ok THEN Ok(w.len)
                          ELSE Err("Stable memory error"))
    /\ UNCHANGED <<proposals, latest_proposal_ids, config, admins, timelock,
                   now, init_admin, ledger, ie_records, calls>>

NextLog == \E buf \in Bufs, growOk \in BOOLEAN : AppendWrite(buf, growOk)

SpecLog == Init /\ [][NextLog]_vars

----------------------------------------------------------------------------
(* The claims.                                                             *)

\* The state of a proposal as the specification defines it (section 4.2,
\* first match wins), for quorum q at time t.
ClaimState(p, q, t) ==
    CASE p.canceled -> "Canceled"
      [] ~p.canceled /\ t < p.start_time -> "Pending"
      [] ~p.canceled /\ t >= p.start_time /\ t < p.end_time -> "Active"
      [] OTHER ->
           IF p.support_votes <= p.against_votes \/ p.support_votes < q
           THEN "Defeated"
           ELSE IF p.task.eta = 0 THEN "Succeeded"
           ELSE IF p.executed THEN "Executed"
           ELSE IF p.executing THEN "Executing"
           ELSE IF t > p.task.eta + GRACE_PERIOD THEN "Expired"
           ELSE "Queued"

Times == 0 .. MaxTime

\* The state the specification gives proposal id now.
StateNow(id) == ClaimState(proposals[id + 1], quorum_votes, now)

\* C1: for every existing proposal and every timestamp, get_state succeeds
\* and returns the first match of the priority order.
C1_GetStateFirstMatch ==
    \A id \in ValidIds, t \in Times :
        LET r == get_state(id, t)
        IN r.ok /\ r.state = ClaimState(proposals[id + 1], quorum_votes, t)

\* C2: get_state accepts an id exactly when id < number of proposals, and
\* returns the invalid-proposal-id error exactly when id >= that number;
\* so does every operation that starts with it.
C2_IdValidity ==
    /\ \A id \in 0 .. MaxProposals, t \in Times :
           LET r == get_state(id, t)
           IN /\ id < Len(proposals) => r.ok
              /\ id >= Len(proposals) =>
                     ~r.ok /\ r.err = "invalid proposal id"
    /\ last.op \in {"queue", "pre_execute", "post_execute", "cancel",
                    "cast_vote"} =>
           /\ last.id < Len(proposals) => last.err # "invalid proposal id"
           /\ last.id >= Len(proposals) =>
                  ~last.ok /\ last.err = "invalid proposal id"

\* C3: a proposal that is neither canceled nor queued is reported Pending
\* before its start_time, Active from start_time until end_time, and, with
\* support one above the quorum and no Against votes, Succeeded from
\* end_time on.
C3_PendingActiveSucceeded ==
    \A id \in ValidIds, t \in Times :
        LET p == proposals[id + 1]
            r == get_state(id, t)
        IN ~p.canceled /\ p.task.eta = 0 =>
               /\ t < p.start_time => r.ok /\ r.state = "Pending"
               /\ p.start_time <= t /\ t < p.end_time =>
                      r.ok /\ r.state = "Active"
               /\ (/\ t >= p.end_time
                   /\ p.support_votes = quorum_votes + 1
                   /\ p.against_votes = 0) => r.ok /\ r.state = "Succeeded"

\* The scenario of C4: one Support vote whose weight equals the quorum, no
\* Against vote, the proposal neither canceled nor queued, voting over at t.
C4_Scenario(p, t) ==
    /\ p.support_votes = quorum_votes
    /\ p.support_votes > 0
    /\ p.against_votes = 0
    /\ ~p.canceled
    /\ p.task.eta = 0
    /\ t >= p.end_time

C5_QueueAndExecuteGuards ==
    [][ /\ (last'.op = "queue" /\ last'.id < Len(proposals)
               /\ StateNow(last'.id) # "Succeeded") => ~last'.ok
        /\ (last'.op = "pre_execute" /\ last'.id < Len(proposals)
               /\ StateNow(last'.id) # "Queued") => ~last'.ok
        /\ (last'.op \in {"queue", "pre_execute"} /\ ~last'.ok) =>
               /\ proposals' = proposals
               /\ timelock' = timelock ]_vars

\* A queue was rejected on a proposal that is Defeated only because its
\* support is below the quorum.
C5_Witness ==
    /\ last.op = "queue"
    /\ ~last.ok
    /\ last.id < Len(proposals)
    /\ StateNow(last.id) = "Defeated"
    /\ proposals[last.id + 1].support_votes
           > proposals[last.id + 1].against_votes
    /\ proposals[last.id + 1].task.eta = 0

\* C6: queue on a Succeeded proposal sets task.eta = now + delay, puts the
\* task with that eta in the Timelock set and returns eta; the proposal is
\* then Queued and a second queue is rejected.
C6_QueueSucceeded ==
    [][ (last'.op = "queue" /\ last'.id < Len(proposals)
            /\ StateNow(last'.id) = "Succeeded") =>
            LET i == last'.id + 1
                eta == now + timelock.delay
            IN /\ last'.ok
               /\ last'.val = eta
               /\ proposals'[i].task.eta = eta
               /\ proposals'[i].task \in timelock'.queued_transactions
               /\ ClaimState(proposals'[i], quorum_votes', now') = "Queued"
               /\ ~(queue(last.id, now).res.ok)' ]_vars

\* C7: pre_execute on a Queued proposal before its eta fails with the
\* Timelock's too-early error and changes nothing.
C7_TooEarly ==
    [][ (last'.op = "pre_execute" /\ last'.id < Len(proposals)
            /\ StateNow(last'.id) = "Queued"
            /\ now < proposals[last'.id + 1].task.eta) =>
            /\ ~last'.ok
            /\ last'.err = "Transaction hasn't surpassed time lock"
            /\ proposals' = proposals
            /\ timelock' = timelock ]_vars

\* C8: pre_execute on a Queued proposal within [eta, eta + GRACE_PERIOD]
\* succeeds, takes the task out of the Timelock set and makes the proposal
\* Executing; post_execute(success) on an Executing proposal then makes it
\* Executed, with the task absent from the set.
C8_ExecuteInWindow ==
    [][ /\ (last'.op = "pre_execute" /\ last'.id < Len(proposals)
               /\ StateNow(last'.id) = "Queued"
               /\ proposals[last'.id + 1].task.eta <= now) =>
               LET i == last'.id + 1
               IN /\ last'.ok
                  /\ proposals'[i].task \notin timelock'.queued_transactions
                  /\ ClaimState(proposals'[i], quorum_votes', now')
                         = "Executing"
        /\ (last'.op = "post_execute" /\ last'.success
               /\ last'.id < Len(proposals)
               /\ StateNow(last'.id) = "Executing") =>
               LET i == last'.id + 1
               IN /\ last'.ok
                  /\ proposals'[i].task \notin timelock'.queued_transactions
                  /\ ClaimState(proposals'[i], quorum_votes', now')
                         = "Executed" ]_vars

\* C9: after post_execute(failure) on an Executing proposal the task is
\* back in the Timelock set, and pre_execute is accepted again at every
\* time from eta to eta + GRACE_PERIOD.
C9_RetryAfterFailure ==
    [][ (last'.op = "post_execute" /\ ~last'.success
            /\ last'.id < Len(proposals)
            /\ StateNow(last'.id) = "Executing") =>
            LET i == last'.id + 1
                eta == proposals[i].task.eta
            IN /\ last'.ok
               /\ proposals'[i].task \in timelock'.queued_transactions
               /\ \A t \in eta .. (eta + GRACE_PERIOD) :
                      (pre_execute(last.id, t).res.ok)' ]_vars

\* C10: cast_vote on an Active proposal succeeds, adds the weight to the
\* tally of the vote type and to no other, and stores the voter's receipt;
\* on a proposal in any other state it fails with the voting-closed error
\* and changes no proposal.
C10_CastVote ==
    [][ \A id \in ValidIds, vt \in VoteTypes, w \in Weights,
           rl \in {NoId} \cup DescLens, g \in BOOLEAN, c \in Principals :
          (last'.op = "cast_vote" /\ CastVote(id, vt, w, rl, g, c)) =>
            LET p == proposals[id + 1]
                q == proposals'[id + 1]
                add(t) == IF t = vt THEN w ELSE 0
            IN IF StateNow(id) = "Active"
               THEN /\ last'.ok
                    /\ q.support_votes = p.support_votes + add("Support")
                    /\ q.against_votes = p.against_votes + add("Against")
                    /\ q.abstain_votes = p.abstain_votes + add("Abstain")
                    /\ q.receipts[c].vote_type = vt
                    /\ q.receipts[c].votes = w
               ELSE /\ ~last'.ok
                    /\ last'.err = "voting is closed"
                    /\ proposals' = proposals ]_vars

\* The votes recorded in the receipts f of the voters in S.
RECURSIVE ReceiptVotes(_, _)
ReceiptVotes(f, S) ==
    IF S = {} THEN 0
    ELSE LET v == CHOOSE x \in S : TRUE
         IN f[v].votes + ReceiptVotes(f, S \ {v})

BelowThreshold == "proposer votes below proposal threshold"

ProposeArgs ==
    [proposer : Principals, votes : Votes, target : Targets,
     dlen : DescLens, growOk : BOOLEAN]

\* The step is the propose call with arguments a.
IsPropose(a) ==
    /\ last'.op = "propose"
    /\ Propose(a.proposer, a.votes, a.target, a.dlen, a.growOk)

\* C12: propose with proposer_votes <= proposal_threshold fails with the
\* below-threshold error and leaves the proposals, latest_proposal_ids and
\* the stable memory as they were; with proposer_votes = threshold + 1 the
\* call does not fail with that error.
C12_ProposeThreshold ==
    [][ \A a \in ProposeArgs : IsPropose(a) =>
          /\ a.votes <= proposal_threshold =>
                 /\ ~last'.ok
                 /\ last'.err = BelowThreshold
                 /\ proposals' = proposals
                 /\ latest_proposal_ids' = latest_proposal_ids
                 /\ stable_memory' = stable_memory
          /\ a.votes = proposal_threshold + 1 =>
                 last'.err # BelowThreshold ]_vars

\* A propose with votes at or below the threshold was rejected.
C12_Witness ==
    /\ last.op = "propose"
    /\ last.err = BelowThreshold
    /\ proposals = <<>>

LiveStates == {"Pending", "Active", "Executing"}

\* Proposer p's latest proposal is live now, by the specification's rules.
LatestIsLive(p) ==
    /\ latest_proposal_ids[p] # NoId
    /\ StateNow(latest_proposal_ids[p]) \in LiveStates

\* C13: propose with votes above the threshold (and the description
\* stored) fails, creating nothing, exactly when the proposer's latest
\* proposal is Pending, Active or Executing; otherwise it succeeds.
C13_OneLiveProposal ==
    [][ \A a \in ProposeArgs :
          (IsPropose(a) /\ a.votes > proposal_threshold /\ a.growOk) =>
              IF LatestIsLive(a.proposer)
              THEN ~last'.ok /\ proposals' = proposals
              ELSE last'.ok ]_vars

\* C14: a successful propose returns the number of proposals created
\* before it, appends one proposal with start_time = now + voting_delay,
\* end_time = start_time + voting_period, zero tallies, no flag set and
\* eta 0, records it as the proposer's latest and changes no earlier
\* proposal.
C14_ProposeCreates ==
    [][ (last'.op = "propose" /\ last'.ok) =>
          LET id == Len(proposals)
              p == proposals'[id + 1]
          IN /\ last'.val = id
             /\ Len(proposals') = id + 1
             /\ SubSeq(proposals', 1, id) = proposals
             /\ p.id = id
             /\ p.start_time = now + voting_delay
             /\ p.end_time = p.start_time + voting_period
             /\ p.support_votes = 0
             /\ p.against_votes = 0
             /\ p.abstain_votes = 0
             /\ ~p.canceled /\ ~p.executing /\ ~p.executed
             /\ p.task.eta = 0
             /\ latest_proposal_ids' =
                    [latest_proposal_ids EXCEPT ![p.proposer] = id] ]_vars

\* A second proposal was created after the first one.
C14_Witness ==
    /\ last.op = "propose"
    /\ last.ok
    /\ last.val = 1
    /\ Len(proposals) = 2

CancelArgs == [caller : Principals, votes : Votes]

\* The step is the cancel call on proposal id with arguments a.
IsCancel(id, a) ==
    /\ last'.op = "cancel"
    /\ Cancel(id, a.caller, a.votes)

\* C15: cancel on a proposal that is Executing or Executed is rejected,
\* whoever calls and whatever the proposer's votes, and leaves the
\* proposals (canceled stays false) and the Timelock set as they were.
C15_CancelExecuting ==
    [][ (last'.op = "cancel" /\ last'.id < Len(proposals)
            /\ StateNow(last'.id) \in {"Executing", "Executed"}) =>
            /\ ~last'.ok
            /\ proposals' = proposals
            /\ ~proposals'[last'.id + 1].canceled
            /\ timelock' = timelock ]_vars

\* A cancel was rejected on an Executing proposal.
C15_Witness ==
    /\ last.op = "cancel"
    /\ ~last.ok
    /\ last.id < Len(proposals)
    /\ StateNow(last.id) = "Executing"
    /\ ~proposals[last.id + 1].canceled

\* C16: cancel by a caller other than the proposer, while the proposer's
\* votes exceed the threshold, fails with the unauthorized error of cancel
\* and leaves the proposals and the Timelock set as they were.
C16_CancelUnauthorized ==
    [][ \A id \in ValidIds, a \in CancelArgs :
          (/\ IsCancel(id, a)
           /\ StateNow(id) \notin {"Executing", "Executed"}
           /\ a.caller # proposals[id + 1].proposer
           /\ a.votes > proposal_threshold) =>
              /\ ~last'.ok
              /\ last'.err = "proposer above threshold"
              /\ proposals' = proposals
              /\ timelock' = timelock ]_vars

\* C17: on a proposal that is neither Executing nor Executed, cancel by the
\* proposer, or by anyone when the proposer's votes are at or below the
\* threshold, succeeds: canceled is set, the state is Canceled at every
\* later time and the task is not in the Timelock set.
C17_CancelAllowed ==
    [][ \A id \in ValidIds, a \in CancelArgs :
          (/\ IsCancel(id, a)
           /\ StateNow(id) \notin {"Executing", "Executed"}
           /\ \/ a.caller = proposals[id + 1].proposer
              \/ a.votes <= proposal_threshold) =>
              /\ last'.ok
              /\ proposals'[id + 1].canceled
              /\ \A t \in now .. MaxTime :
                     ClaimState(proposals'[id + 1], quorum_votes', t)
                         = "Canceled"
              /\ proposals'[id + 1].task
                     \notin timelock'.queued_transactions ]_vars

\* The edges of the proposal life cycle.
Edges ==
    {<<"Pending", "Active">>, <<"Pending", "Canceled">>,
     <<"Active", "Defeated">>, <<"Active", "Succeeded">>,
     <<"Active", "Canceled">>,
     <<"Succeeded", "Queued">>, <<"Succeeded", "Canceled">>,
     <<"Queued", "Executing">>, <<"Queued", "Expired">>,
     <<"Queued", "Canceled">>,
     <<"Executing", "Executed">>}

\* The state get_state's rules give proposal id now.
ChainNow(id) == ProposalStateOf(proposals[id + 1], now)

LiveOf(p, t) ==
    {id \in ValidIds :
        /\ proposals[id + 1].proposer = p
        /\ ClaimState(proposals[id + 1], quorum_votes, t) \in LiveStates}

\* C19: at every time each proposer has at most one proposal that is
\* Pending, Active or Executing.
C19_OneLivePerProposer ==
    \A p \in Principals, t \in Times : Cardinality(LiveOf(p, t)) <= 1

\* A proposer whose only proposal is live proposed again and was rejected.
C19_Witness ==
    /\ last.op = "propose"
    /\ ~last.ok
    /\ last.err = "invalid proposal id"
    /\ Len(proposals) = 1
    /\ StateNow(0) \in LiveStates

\* C20: on a task at time t the Timelock gate fails with the not-queued
\* error when the task is not in the set, with the too-early error when
\* t < eta, with the stale error when t > eta + GRACE_PERIOD, each time
\* leaving the set as it was; otherwise it removes the task and succeeds.
C20_TimelockGate ==
    \A id \in ValidIds, t \in Times :
        LET task == proposals[id + 1].task
            g == pre_execute_transaction(timelock, task, t)
            queued == task \in timelock.queued_transactions
        IN /\ ~queued =>
                  /\ g.res.err = "Transaction hasn't been queued"
                  /\ g.tl = timelock
           /\ (queued /\ t < task.eta) =>
                  /\ g.res.err = "Transaction hasn't surpassed time lock"
                  /\ g.tl = timelock
           /\ (queued /\ t > task.eta + GRACE_PERIOD) =>
                  /\ g.res.err = "Transaction is stale"
                  /\ g.tl = timelock
           /\ (queued /\ task.eta <= t /\ t <= task.eta + GRACE_PERIOD) =>
                  /\ g.res.ok
                  /\ task \notin g.tl.queued_transactions

\* The tasks a Timelock may be handed: any target, any eta.
CandidateTasks ==
    {[NewTask(tg) EXCEPT !.eta = e] : tg \in Targets, e \in Times}

\* C21: queue_transaction on a task already in the set and
\* cancel_transaction on a task not in it leave the set as it is, each is
\* idempotent, and queue-then-cancel of a task leaves the set without that
\* task and otherwise as it was.
C21_TimelockSetOps ==
    \A t \in CandidateTasks :
        LET tl == timelock
            q == queue_transaction(tl, t)
            c == cancel_transaction(tl, t)
        IN /\ t \in tl.queued_transactions => q = tl
           /\ queue_transaction(q, t) = q
           /\ t \notin tl.queued_transactions => c = tl
           /\ cancel_transaction(c, t) = c
           /\ cancel_transaction(q, t).queued_transactions
                  = tl.queued_transactions \ {t}
           /\ q.delay = tl.delay /\ c.delay = tl.delay

\* The Timelock set holds a task, and other tasks are not in it.
C21_Witness ==
    /\ timelock.queued_transactions # {}
    /\ \E t \in CandidateTasks : t \in timelock.queued_transactions
    /\ \E t \in CandidateTasks : t \notin timelock.queued_transactions

\* The step leaves everything the governor stores as it was.
GovernorUnchanged ==
    /\ proposals' = proposals
    /\ latest_proposal_ids' = latest_proposal_ids
    /\ timelock' = timelock
    /\ stable_memory' = stable_memory
    /\ config' = config

\* C22: when the ledger's answer to getCurrentVotes or getPriorVotes is a
\* rejection, propose, cancel and cast_vote return the query error and
\* change nothing; the result is not that of the call with zero votes.
C22_VoteQueryFailure ==
    [][ /\ last'.op = "propose" =>
              \A c \in Principals, t \in Targets, d \in DescLens,
                 g \in BOOLEAN :
                  ProposeQueryFails(c, t, d, g) =>
                      /\ ~last'.ok
                      /\ last'.err = ProposerVoteError
                      /\ GovernorUnchanged
                      /\ last'.err # propose(c, 0, t, d, g, now).res.err
        /\ (last'.op = "cancel" /\ last'.id < Len(proposals)) =>
              \A c \in Principals :
                  CancelQueryFails(last'.id, c) =>
                      /\ ~last'.ok
                      /\ last'.err = ProposerVoteError
                      /\ GovernorUnchanged
                      /\ last'.err # cancel(last'.id, now, c, 0).res.err
        /\ last'.op = "cast_vote" =>
              \A vt \in VoteTypes, rl \in {NoId} \cup DescLens,
                 c \in Principals :
                  CastVoteQueryFails(last'.id, vt, rl, c) =>
                      /\ ~last'.ok
                      /\ last'.err = PriorVoteError
                      /\ GovernorUnchanged ]_vars

\* A cast_vote on an Active proposal ended with the query error.
C22_Witness ==
    /\ last.op = "cast_vote"
    /\ last.err = PriorVoteError
    /\ last.id < Len(proposals)
    /\ StateNow(last.id) = "Active"

\* C23: accept_admin by the recorded pending admin succeeds, makes the
\* caller the admin and clears pending_admin; by anyone else, or with no
\* pending admin recorded, it fails and leaves both as they were.
C23_AcceptAdmin ==
    [][ \A c \in AdminCallers :
          (last'.op = "acceptAdmin" /\ AcceptAdmin(c)) =>
              IF pending_admin = c
              THEN /\ last'.ok
                   /\ admin' = c
                   /\ pending_admin' = None
              ELSE /\ ~last'.ok
                   /\ admin' = admin
                   /\ pending_admin' = pending_admin ]_vars

\* The pending admin alice accepted and is the admin.
C23_Witness ==
    /\ last.op = "acceptAdmin"
    /\ last.ok
    /\ admin = "alice"
    /\ pending_admin = None

\* The step is a call by c of one of the admin-gated entry points.
IsAdminCall(c) ==
    \/ \E q \in QuorumValues : SetQuorumVotes(c, q)
    \/ \E d \in VotingDelayValues : SetVoteDelay(c, d)
    \/ \E p \in VotingPeriodValues : SetVotePeriod(c, p)
    \/ \E t \in ThresholdValues : SetProposalThreshold(c, t)
    \/ \E d \in TimelockDelayValues : SetTimelockDelay(c, d)
    \/ \E p \in Principals : SetPendingAdmin(c, p)

AdminOps ==
    {"setQuorumVotes", "setVoteDelay", "setVotePeriod",
     "setProposalThreshold", "setTimelockDelay", "setPendingAdmin"}

\* C24: after initialization with admin A the admin is A; an admin-gated
\* call by anyone but the current admin is rejected and leaves the
\* configuration and pending_admin as they were; the admin changes only
\* in accept_admin.
C24_AdminGate ==
    /\ admin = init_admin
    /\ [][ /\ \A c \in AdminCallers :
                 (last'.op \in AdminOps /\ IsAdminCall(c) /\ c # admin) =>
                     /\ ~last'.ok
                     /\ config' = config
                     /\ timelock' = timelock
                     /\ pending_admin' = pending_admin
           /\ admin' # admin => last'.op = "acceptAdmin" ]_vars


RECURSIVE SumOver(_, _)
SumOver(f, S) ==
    IF S = {} THEN 0
    ELSE LET a == CHOOSE x \in S : TRUE IN f[a] + SumOver(f, S \ {a})

\* C25: after init and any sequence of successful or failed transfer,
\* transferFrom, approve, mint, burn and delegate calls the balances add up
\* to total_supply, and a step changes total_supply only as a mint, by
\* +amount, or a burn, by -amount.
C25_SupplyConserved ==
    /\ [](SumOver(balances, Principals) = stats.total_supply)
    /\ [][\/ stats'.total_supply = stats.total_supply
          \/ /\ last'.op = "mint"
             /\ \E c \in Principals, to \in Principals, v \in Amounts, capOk \in BOOLEAN :
                    /\ Mint(c, to, v, capOk)
                    /\ stats'.total_supply = stats.total_supply + v
          \/ /\ last'.op = "burn"
             /\ \E c \in Principals, v \in Amounts, capOk \in BOOLEAN :
                    /\ Burn(c, v, capOk)
                    /\ stats'.total_supply = stats.total_supply - v]_vars

\* A transfer between two holders after a mint, the fee paid.
C25_Witness ==
    /\ last.op = "transfer"
    /\ last.ok
    /\ stats.total_supply = MaxSupply
    /\ stats.fee > 0
    /\ balances["bob"] = MaxSupply

Moved(b, from, to, v) == [[b EXCEPT ![from] = @ - v] EXCEPT ![to] = @ + v]

\* C26: transfer(to, amount) by a caller whose balance is at least
\* amount + fee succeeds, the fee credited to the fee recipient and amount
\* moved from the caller to `to`; with a smaller balance it fails with
\* InsufficientBalance and changes no balance and no checkpoint; whether or
\* not the caller or the recipient has ever delegated.
C26_Transfer ==
    [][last'.op = "transfer" =>
        \A c \in Principals, to \in Principals, v \in Amounts :
            Transfer(c, to, v, TRUE) =>
                IF balances[c] >= v + stats.fee
                THEN /\ last'.ok
                     /\ balances' = Moved(Moved(balances, c, stats.fee_to,
                                                stats.fee), c, to, v)
                ELSE /\ last'.err = "InsufficientBalance"
                     /\ balances' = balances
                     /\ check_points' = check_points]_vars

VotesOf(cps, a) == IF cps[a] = <<>> THEN 0 ELSE cps[a][Len(cps[a])].votes

\* C27: delegate(d) by a caller c with balance b > 0 records
\* delegates[c] = d, lowers the current votes of c's previously recorded
\* delegatee (if any) by b and raises d's by b, with a checkpoint at the
\* current time for each of the two; a caller with balance 0 gets
\* InsufficientBalance and nothing changes.  Only the calls whose
\* current_delegate read the entry as it was are looked at.
C27_Delegate ==
    [][last'.op = "delegate" =>
        \A c \in Principals, d \in Principals :
            Delegate(c, d, delegates[c], TRUE) =>
                IF balances[c] > 0
                THEN /\ last'.ok
                     /\ delegates' = [delegates EXCEPT ![c] = d]
                     /\ \A a \in Principals :
                            /\ VotesOf(check_points', a) =
                                 VotesOf(check_points, a)
                                 - (IF a = delegates[c] THEN balances[c] ELSE 0)
                                 + (IF a = d THEN balances[c] ELSE 0)
                            /\ IF a \in {delegates[c], d}
                               THEN check_points'[a][Len(check_points'[a])].timestamp = now
                               ELSE check_points'[a] = check_points[a]
                ELSE /\ last'.err = "InsufficientBalance"
                     /\ UNCHANGED ledger]_vars

\* C28: the clock never going back, after any sequence of ledger calls the
\* timestamps of every account's checkpoints are strictly increasing: a
\* write at the timestamp of the last entry replaces that entry's votes.
C28_CheckPointsIncrease ==
    \A a \in Principals :
        \A i \in 1 .. Len(check_points[a]) - 1 :
            check_points[a][i].timestamp < check_points[a][i + 1].timestamp

\* Two holders of one token each have delegated to bob at timestamp 0: the
\* second write found bob's entry of the same timestamp.
C28_Witness ==
    /\ now = 0
    /\ balances = [a \in Principals |-> 1]
    /\ delegates = [a \in Principals |-> "bob"]
    /\ check_points["bob"] = <<[timestamp |-> 0, votes |-> 2]>>

QueryTimes == 0 .. MaxLedgerTime + 1

\* C29: getPriorVotes(a, t) is 0 whenever t is earlier than the timestamp
\* of a's oldest checkpoint.
C29_BeforeFirstCheckPoint ==
    \A a \in Principals, t \in QueryTimes :
        (check_points[a] # <<>> /\ t < check_points[a][1].timestamp)
            => get_prior_votes(a, t) = 0

\* The checkpoint of cps with the greatest timestamp that is at most t.
LatestAtOrBefore(cps, t) ==
    CHOOSE i \in 1 .. Len(cps) :
        /\ cps[i].timestamp <= t
        /\ \A j \in 1 .. Len(cps) :
               cps[j].timestamp <= t => cps[j].timestamp <= cps[i].timestamp

\* C30: for an account a and a timestamp t not earlier than a's oldest
\* checkpoint getPriorVotes(a, t) is the votes of the checkpoint with the
\* greatest timestamp <= t; for an account without checkpoints it is 0;
\* getCurrentVotes(a) is the votes of the last checkpoint, or 0 without one.
C30_PriorVotes ==
    \A a \in Principals :
        LET cps == check_points[a]
        IN IF cps = <<>>
           THEN /\ get_current_votes(a) = 0
                /\ \A t \in QueryTimes : get_prior_votes(a, t) = 0
           ELSE /\ get_current_votes(a) = cps[Len(cps)].votes
                /\ \A t \in QueryTimes :
                       t >= cps[1].timestamp =>
                           get_prior_votes(a, t) =
                               cps[LatestAtOrBefore(cps, t)].votes

\* An account with checkpoints at the timestamps 0 and 2 and different
\* votes: the search for timestamp 1 finds no entry and falls back to the
\* one before the insertion point.
C30_Witness ==
    \E a \in Principals :
        /\ Len(check_points[a]) = 2
        /\ check_points[a][1].timestamp = 0
        /\ check_points[a][2].timestamp = 2
        /\ check_points[a][1].votes # check_points[a][2].votes
        /\ get_prior_votes(a, 1) = check_points[a][1].votes

LedgerOps ==
    {"transfer", "transferFrom", "approve", "mint", "burn", "delegate"}

\* C31: a ledger call (transfer, transferFrom, approve, mint, burn,
\* delegate) that returns an error to its caller has changed no balance,
\* allowance, total_supply, delegate or checkpoint; so a refused event
\* record does not make an error of a call whose changes were kept.
C31_ErrorsChangeNothing ==
    [][(last'.op \in LedgerOps /\ ~last'.ok) => UNCHANGED ledger]_vars

\* C32: the buffer of unsent events has one slot: after any sequence of
\* calls, whatever the sink answers, it holds at most one event.
C32_SingleSlot == Len(ie_records) <= 1

\* C33: a write of bytes returns the Position whose offset is the end
\* before the write and whose length is the number of bytes, and moves the
\* end forward by that number; the end never goes back; the Positions of
\* different writes do not overlap; and a read of a Position gives the bytes
\* of its write, whatever was written afterwards.
C33_AppendLog ==
    /\ [](\A i \in 1 .. Len(log_writes) :
            /\ log_writes[i].pos.len = Len(log_writes[i].buf)
            /\ read_buf(stable_memory, stable_bytes, log_writes[i].pos.offset,
                        log_writes[i].pos.len)
                 = [ok |-> TRUE, buf |-> log_writes[i].buf]
            /\ \A j \in 1 .. Len(log_writes) :
                   i < j => log_writes[i].pos.offset + log_writes[i].pos.len
                              <= log_writes[j].pos.offset)
    /\ [][/\ stable_memory'.offset >= stable_memory.offset
          /\ (last'.op = "write" /\ last'.ok) =>
                LET w == log_writes'[Len(log_writes')]
                IN /\ Len(log_writes') = Len(log_writes) + 1
                   /\ w.pos.offset = stable_memory.offset
                   /\ stable_memory'.offset = stable_memory.offset + Len(w.buf)
          /\ (last'.op = "write" /\ ~last'.ok) =>
                UNCHANGED <<stable_memory, stable_bytes, log_writes>>]_vars

\* Three writes of different bytes, the last one growing the memory.
C33_Witness ==
    /\ Len(log_writes) = MaxWrites
    /\ log_writes[1].buf = <<1, 2>>
    /\ log_writes[2].buf = <<2>>
    /\ log_writes[3].buf = <<2, 1, 1>>
    /\ stable_memory.capacity > 1

\* The ids from hi down to lo, each with the state the specification gives
\* it at t.
PageOf(hi, lo, t) ==
    [i \in 1 .. (hi - lo + 1) |->
        <<hi + 1 - i, ClaimState(proposals[hi + 2 - i], quorum_votes, t)>>]

\* C34: with n proposals get_proposal_pages(page, num, now) returns the
\* proposals n-1-page*num down to max(0, n-(page+1)*num), the most recent
\* first, each with its state at now; the empty list when n = 0 or
\* page*num >= n; and it never fails or aborts.
C34_ProposalPages ==
    \A page \in Pages, num \in PageNums :
        LET n == Len(proposals)
            r == get_proposal_pages(page, num, now)
            lo == IF n - (page + 1) * num > 0 THEN n - (page + 1) * num ELSE 0
        IN /\ r.ok
           /\ r.val = IF n = 0 \/ page * num >= n THEN <<>>
                      ELSE PageOf(n - 1 - page * num, lo, now)

Tallies(p) == <<p.support_votes, p.against_votes, p.abstain_votes>>

Outstanding(id) ==
    {c \in Principals : /\ inflight[c].op = "execute"
                        /\ inflight[c].stage = "awaiting"
                        /\ inflight[c].id = id}

RECURSIVE BalanceSum(_)
BalanceSum(S) ==
    IF S = {} THEN 0
    ELSE LET a == CHOOSE x \in S : TRUE
         IN balances[a] + BalanceSum(S \ {a})

\* C38: the current voting power of every account d is the sum of the
\* balances of the accounts whose recorded delegatee is d.
C38_DelegatedBalances ==
    \A d \in Principals :
        get_current_votes(d) =
            BalanceSum({a \in Principals : delegates[a] = d})

Passed == {"Succeeded", "Queued", "Executing", "Executed", "Expired"}

====
